---- MODULE Spec2Model ----
(***************************************************************************)
(* State-machine model of src/main.rs: the winit event-loop closure of     *)
(* `run` (redraw cycle, resize handling with the first-resize suppression, *)
(* close request, input forwarding to egui_winit) and the setup that       *)
(* precedes it.  Every handler is one action; the collaborator calls a     *)
(* handler makes are recorded, in program order, in `calls`.               *)
(***************************************************************************)
EXTENDS Integers, Sequences, FiniteSets, TLC

VARIABLES
    target_os,              \* the platform family the binary was built for (cfg!, line 74)
    window_inner_size,      \* window.inner_size() as read during setup (lines 12, 69)
    config,                 \* wgpu SurfaceConfiguration (lines 51-53, 178-179)
    screen_descriptor,      \* egui_wgpu ScreenDescriptor (lines 67-70, 174-175)
    first_resize_happened,  \* line 74
    control_flow,           \* winit ControlFlow (line 185)
    redraw_pending,         \* window.request_redraw() outstanding (lines 182, 192)
    textures,               \* texture ids held by egui_renderer (lines 126-129)
    status,                 \* "running", "panicked" (line 112), "destroyed" (loop ended)
    log,                    \* history: the events delivered to the closure, in order
    calls,                  \* history: collaborator calls made by the last handler
    pre,                    \* history: config / screen_descriptor / flags before the last handler
    dropped,                \* history: number of resize events dropped at lines 169-172
    removed,                \* history: ids a texture delta freed and no later delta set
    spent,                  \* number of platform-initiated events delivered so far
    ui_driver,              \* egui Context between begin_frame and end_frame (lines 87, 107)
    fed,                    \* history: serial numbers of the events given to on_window_event
    frame                   \* history: shapes and paint jobs of the last redraw cycle

vars == << target_os, window_inner_size, config, screen_descriptor,
           first_resize_happened, control_flow, redraw_pending, textures,
           status, log, calls, pre, dropped, removed, spent, ui_driver, fed,
           frame >>

----------------------------------------------------------------------------
(* Bounds of the exploration *)

\* platform-initiated events (resize, close, input, unsolicited redraw) per run
MaxEvents == 3
\* texture ids the UI engine may mention in a texture delta: 1..MaxTex
MaxTex == 1

TexIds == 1 .. MaxTex

\* window sizes the platform may report: the degenerate one (a minimised
\* window) and the two of the 800x600 -> 400x300 scenario
Sizes == { <<0, 0>>, <<400, 300>>, <<800, 600>> }

OsFamilies == { "windows", "other" }

----------------------------------------------------------------------------
(* Helpers *)

Last(s) == s[Len(s)]

Min(S) == CHOOSE x \in S : \A y \in S : x <= y

RECURSIVE SetToSeq(_)
SetToSeq(S) == IF S = {} THEN << >>
               ELSE LET m == Min(S) IN << m >> \o SetToSeq(S \ {m})

Call(op, arg) == [op |-> op, arg |-> arg]

Ops(cs) == [i \in 1 .. Len(cs) |-> cs[i].op]

HasOp(cs, op) == \E i \in 1 .. Len(cs) : cs[i].op = op

CountOp(cs, op) == Cardinality({ i \in 1 .. Len(cs) : cs[i].op = op })

IndexOf(cs, op) == CHOOSE i \in 1 .. Len(cs) : cs[i].op = op

----------------------------------------------------------------------------
(* Setup: lines 12-74 *)

\* u32::max(1), lines 13-14 and 178-179
ClampNoMin(x) == x

Clamp(x) == IF x < 1 THEN 1 ELSE x

\* cfg!(not(target_os = "windows")), line 74
InitialFlagAlwaysFalse(os) == FALSE

InitialFlag(os) == os # "windows"

\* window.scale_factor(), lines 58 and 68
ScaleFactor == 1

\* surface.get_default_config(&adapter, size.width, size.height), lines 51-53
DefaultConfig(w, h) ==
    [ width |-> w, height |-> h, format |-> "preferred", present_mode |-> "Fifo" ]

\* no redraw cycle has run yet
NoFrame == [ shapes |-> << >>, paint_jobs |-> << >>,
             buffered |-> << >>, rendered |-> << >> ]

Snapshot == [ config                |-> config,
              screen_descriptor     |-> screen_descriptor,
              first_resize_happened |-> first_resize_happened,
              redraw_pending        |-> redraw_pending,
              control_flow          |-> control_flow,
              textures              |-> textures ]

Init ==
    /\ target_os \in OsFamilies
    /\ window_inner_size \in Sizes
    /\ config = DefaultConfig(Clamp(window_inner_size[1]), Clamp(window_inner_size[2]))
    /\ screen_descriptor = [ pixels_per_point |-> ScaleFactor,
                             size_in_pixels   |-> window_inner_size ]
    /\ first_resize_happened = InitialFlag(target_os)
    /\ control_flow = "Poll"
    /\ redraw_pending = FALSE
    /\ textures = {}
    /\ status = "running"
    /\ log = << >>
    /\ calls = << Call("configure", << config.width, config.height >>) >>
    /\ pre = [ config                |-> config,
               screen_descriptor     |-> screen_descriptor,
               first_resize_happened |-> first_resize_happened,
               redraw_pending        |-> FALSE,
               control_flow          |-> "Poll",
               textures              |-> {} ]
    /\ dropped = 0
    /\ removed = {}
    /\ spent = 0
    /\ ui_driver = "Idle"
    /\ fed = << >>
    /\ frame = NoFrame

----------------------------------------------------------------------------
(* The platform: which events the event loop may hand to the closure *)

\* The closure is called until the loop is destroyed or the process panicked.
Delivering == status = "running"

\* Platform-initiated events are capped by MaxEvents.
CanInitiate == Delivering /\ spent < MaxEvents

Event(kind, size, flag) == [ kind |-> kind, size |-> size, flag |-> flag ]

----------------------------------------------------------------------------
(* Event::RedrawRequested, lines 84-162 *)

\* the egui part of the cycle, lines 86-107
UiCallsEndFirst ==
    << Call("take_egui_input", << >>),
       Call("end_frame", << >>),
       Call("begin_frame", << >>),
       Call("set_visuals", << >>),
       Call("show", << >>) >>

UiCalls ==
    << Call("take_egui_input", << >>),
       Call("begin_frame", << >>),
       Call("set_visuals", << >>),
       Call("show", << >>),
       Call("end_frame", << >>) >>

\* lines 126-129: one update_texture per entry of textures_delta.set
RECURSIVE UpdateTextureCalls(_)
UpdateTextureCalls(ids) ==
    IF ids = << >> THEN << >>
    ELSE << Call("update_texture", << Head(ids) >>) >> \o UpdateTextureCalls(Tail(ids))

\* lines 113-161, the part of the cycle after a successful acquisition
GpuCallsPresentFirst(delta, sd) ==
    << Call("create_view", << >>),
       Call("create_command_encoder", << >>),
       Call("tessellate", << >>) >>
    \o UpdateTextureCalls(SetToSeq(delta.set))
    \o << Call("update_buffers", sd.size_in_pixels),
          Call("begin_render_pass", << >>),
          Call("render", sd.size_in_pixels),
          Call("finish", << >>),
          Call("present", << >>),
          Call("submit", << >>) >>

GpuCallsNoPresent(delta, sd) ==
    << Call("create_view", << >>),
       Call("create_command_encoder", << >>),
       Call("tessellate", << >>) >>
    \o UpdateTextureCalls(SetToSeq(delta.set))
    \o << Call("update_buffers", sd.size_in_pixels),
          Call("begin_render_pass", << >>),
          Call("render", sd.size_in_pixels),
          Call("finish", << >>),
          Call("submit", << >>) >>

GpuCalls(delta, sd) ==
    << Call("create_view", << >>),
       Call("create_command_encoder", << >>),
       Call("tessellate", << >>) >>
    \o UpdateTextureCalls(SetToSeq(delta.set))
    \o << Call("update_buffers", sd.size_in_pixels),
          Call("begin_render_pass", << >>),
          Call("render", sd.size_in_pixels),
          Call("finish", << >>),
          Call("submit", << >>),
          Call("present", << >>) >>

\* the renderer's texture set after lines 124-129: every id of delta.set is
\* created or updated; delta.free is never read
TexturesAfter(held, delta) == held \cup delta.set

\* the texture deltas end_frame may return: set and free are disjoint
TextureDeltas ==
    { d \in [ set : SUBSET TexIds, free : SUBSET TexIds ] : d.set \cap d.free = {} }

\* egui Context: begin_frame takes it from Idle to Building, end_frame back;
\* any other use is the programmer error
DriverStep(s, op) ==
    IF s = "Error" THEN "Error"
    ELSE IF op = "begin_frame" THEN (IF s = "Idle" THEN "Building" ELSE "Error")
    ELSE IF op = "end_frame" THEN (IF s = "Building" THEN "Idle" ELSE "Error")
    ELSE IF op \in { "set_visuals", "show" } THEN (IF s = "Building" THEN s ELSE "Error")
    ELSE s

RECURSIVE DriverRun(_, _)
DriverRun(s, cs) ==
    IF cs = << >> THEN s ELSE DriverRun(DriverStep(s, Head(cs).op), Tail(cs))

\* output.shapes: what the content of lines 96-106 paints, back to front
FrameShapes == << "label:Hello world", "button:aaa", "button:Click me" >>

\* context.tessellate(output.shapes, output.pixels_per_point), lines 122-123:
\* one clipped primitive per shape, in the order of the shapes
Tessellate(shapes) ==
    [ i \in 1 .. Len(shapes) |-> [ clip |-> "screen", mesh |-> shapes[i] ] ]

\* the paint jobs update_buffers (line 135) and render (line 157) are given
ReversedJobs(paint_jobs) ==
    [ i \in 1 .. Len(paint_jobs) |-> paint_jobs[Len(paint_jobs) + 1 - i] ]

BufferedJobs(paint_jobs) == paint_jobs

RenderedJobs(paint_jobs) == paint_jobs

\* lines 107-157: what becomes of the frame output in a cycle
FrameOf(ok) ==
    IF ok
    THEN LET paint_jobs == Tessellate(FrameShapes)
         IN  [ shapes     |-> FrameShapes,
               paint_jobs |-> paint_jobs,
               buffered   |-> BufferedJobs(paint_jobs),
               rendered   |-> RenderedJobs(paint_jobs) ]
    ELSE [ NoFrame EXCEPT !.shapes = FrameShapes ]

RedrawRequested ==
    /\ Delivering
    /\ redraw_pending \/ spent < MaxEvents
    /\ \E ok \in BOOLEAN, delta \in TextureDeltas :
        \* a frame output dropped by the panic is not told apart by its delta
        /\ ~ok => delta = [ set |-> {}, free |-> {} ]
        /\ log' = Append(log, Event("redraw", << >>, ok))
        /\ pre' = Snapshot
        /\ spent' = IF redraw_pending THEN spent ELSE spent + 1
        /\ redraw_pending' = FALSE
        /\ frame' = FrameOf(ok)
        /\ IF ok
           THEN /\ calls' = UiCalls \o << Call("get_current_texture", << >>) >>
                                    \o GpuCalls(delta, screen_descriptor)
                /\ textures' = TexturesAfter(textures, delta)
                /\ removed' = (removed \cup delta.free) \ delta.set
                /\ status' = status
           ELSE \* .expect("Failed to acquire next swap chain texture"), line 112
                /\ calls' = UiCalls \o << Call("get_current_texture", << >>) >>
                /\ status' = "panicked"
                /\ UNCHANGED << textures, removed >>
    /\ ui_driver' = DriverRun(ui_driver, calls')
    /\ UNCHANGED << target_os, window_inner_size, config, screen_descriptor,
                    first_resize_happened, control_flow, dropped, fed >>

----------------------------------------------------------------------------
(* WindowEvent::Resized, lines 168-183 *)

\* line 169: the event is dropped when the flag is still false
NeverSuppressed(flag) == FALSE

AlwaysSuppressed(flag) == TRUE

Suppressed(flag) == ~flag

\* lines 174-175
SdKeepSize(sd, new_size) ==
    [ sd EXCEPT !.pixels_per_point = ScaleFactor ]

SdAfterResize(sd, new_size) ==
    [ sd EXCEPT !.size_in_pixels = new_size, !.pixels_per_point = ScaleFactor ]

\* lines 178-179
ConfigAfterResizeFresh(cfg, new_size) ==
    [ width |-> Clamp(new_size[1]), height |-> Clamp(new_size[2]),
      format |-> "preferred", present_mode |-> "Immediate" ]

ConfigAfterResize(cfg, new_size) ==
    [ cfg EXCEPT !.width = Clamp(new_size[1]), !.height = Clamp(new_size[2]) ]

\* calls of the honored branch, lines 175-182
ResizedCallsNoRedraw(new_size) ==
    << Call("pixels_per_point", << >>),
       Call("configure", << Clamp(new_size[1]), Clamp(new_size[2]) >>) >>

ResizedCalls(new_size) ==
    << Call("pixels_per_point", << >>),
       Call("configure", << Clamp(new_size[1]), Clamp(new_size[2]) >>),
       Call("request_redraw", << >>) >>

Resized ==
    /\ CanInitiate
    /\ \E new_size \in Sizes :
        /\ log' = Append(log, Event("resize", new_size, TRUE))
        /\ pre' = Snapshot
        /\ spent' = spent + 1
        /\ IF Suppressed(first_resize_happened)
           THEN /\ first_resize_happened' = TRUE
                /\ dropped' = dropped + 1
                /\ calls' = << >>
                /\ UNCHANGED << config, screen_descriptor, redraw_pending >>
           ELSE /\ screen_descriptor' = SdAfterResize(screen_descriptor, new_size)
                /\ config' = ConfigAfterResize(config, new_size)
                /\ calls' = ResizedCalls(new_size)
                /\ redraw_pending' = (redraw_pending \/ HasOp(calls', "request_redraw"))
                /\ UNCHANGED << first_resize_happened, dropped >>
    /\ UNCHANGED << target_os, window_inner_size, control_flow, textures,
                    status, removed, ui_driver, fed, frame >>

----------------------------------------------------------------------------
(* WindowEvent::CloseRequested, lines 184-186 *)

CloseRequested ==
    /\ CanInitiate
    /\ log' = Append(log, Event("close", << >>, TRUE))
    /\ pre' = Snapshot
    /\ spent' = spent + 1
    /\ control_flow' = "ExitWithCode(0)"
    /\ calls' = << >>
    /\ UNCHANGED << target_os, window_inner_size, config, screen_descriptor,
                    first_resize_happened, redraw_pending, textures, status,
                    dropped, removed, ui_driver, fed, frame >>

----------------------------------------------------------------------------
(* any other WindowEvent, lines 187-194 *)

\* lines 188-193: on_window_event, then request_redraw when result.repaint
OtherCallsAlwaysRedraw(repaint) ==
    << Call("on_window_event", << >>), Call("request_redraw", << >>) >>

OtherCalls(repaint) ==
    << Call("on_window_event", << >>) >>
    \o (IF repaint THEN << Call("request_redraw", << >>) >> ELSE << >>)

\* lines 188-190: the event is handed to egui_winit, after those before it
FedPrepend(seq, serial) == << serial >> \o seq

FedAfter(seq, serial) == Append(seq, serial)

OtherWindowEvent ==
    /\ CanInitiate
    /\ \E repaint \in BOOLEAN :
        /\ log' = Append(log, Event("other", << >>, repaint))
        /\ calls' = OtherCalls(repaint)
    /\ pre' = Snapshot
    /\ spent' = spent + 1
    /\ redraw_pending' = (redraw_pending \/ HasOp(calls', "request_redraw"))
    /\ fed' = FedAfter(fed, Len(log) + 1)
    /\ UNCHANGED << target_os, window_inner_size, config, screen_descriptor,
                    first_resize_happened, control_flow, textures, status,
                    dropped, removed, ui_driver, frame >>

----------------------------------------------------------------------------
(* Event::LoopDestroyed, the `_ => {}` arm of line 197: winit delivers it   *)
(* last, once control_flow is ExitWithCode; the closure is not called again *)

LoopDestroyed ==
    /\ Delivering
    /\ control_flow = "ExitWithCode(0)"
    /\ log' = Append(log, Event("loop_destroyed", << >>, TRUE))
    /\ pre' = Snapshot
    /\ calls' = << >>
    /\ status' = "destroyed"
    /\ UNCHANGED << target_os, window_inner_size, config, screen_descriptor,
                    first_resize_happened, control_flow, redraw_pending,
                    textures, dropped, removed, spent, ui_driver, fed, frame >>

----------------------------------------------------------------------------

Next ==
    \/ RedrawRequested
    \/ Resized
    \/ CloseRequested
    \/ OtherWindowEvent
    \/ LoopDestroyed

Spec == Init /\ [][Next]_vars

\* The platform answers every outstanding window.request_redraw() with a
\* RedrawRequested event.
RedrawDelivery == redraw_pending /\ RedrawRequested

SpecFair == Init /\ [][Next]_vars /\ WF_vars(RedrawDelivery)

\* The state of the Frame Loop Controller between two events
Controller ==
    IF status = "panicked" THEN "Fatal"
    ELSE IF control_flow = "ExitWithCode(0)" THEN "Closing"
    ELSE "Idle"

TypeOK ==
    /\ target_os \in OsFamilies
    /\ window_inner_size \in Sizes
    /\ config.width \in Nat /\ config.height \in Nat
    /\ screen_descriptor.size_in_pixels \in Sizes
    /\ first_resize_happened \in BOOLEAN
    /\ control_flow \in { "Poll", "ExitWithCode(0)" }
    /\ redraw_pending \in BOOLEAN
    /\ textures \subseteq TexIds
    /\ status \in { "running", "panicked", "destroyed" }
    /\ dropped \in Nat
    /\ removed \subseteq TexIds
    /\ spent \in 0 .. MaxEvents
    /\ ui_driver \in { "Idle", "Building", "Error" }
    /\ \A i \in 1 .. Len(fed) : fed[i] \in 1 .. Len(log)
    /\ frame.shapes \in { << >>, FrameShapes }

----------------------------------------------------------------------------
(* Vocabulary of the properties *)

Handled(kind) == Len(log) > 0 /\ Last(log).kind = kind

NumKind(l, kind) == Cardinality({ i \in 1 .. Len(l) : l[i].kind = kind })

AtLeastOne(x) == IF x >= 1 THEN x ELSE 1

\* the last resize event was not dropped
Honored == Handled("resize") /\ pre.first_resize_happened

CalledWith(op, arg) == \E i \in 1 .. Len(calls) : calls[i] = Call(op, arg)

\* a handler that ran (part of) a redraw cycle
RanRedrawCycle ==
    \E i \in 1 .. Len(calls) :
        calls[i].op \in { "take_egui_input", "begin_frame", "end_frame",
                          "get_current_texture", "update_buffers", "render",
                          "submit", "present" }

IsStep(op) == op \in { "take_egui_input", "begin_frame", "show", "end_frame",
                       "get_current_texture", "submit", "present" }

Steps(cs) == SelectSeq(Ops(cs), IsStep)

CycleSteps == << "take_egui_input", "begin_frame", "show", "end_frame",
                 "get_current_texture", "submit", "present" >>

----------------------------------------------------------------------------
(* C1: in every reachable state the Surface Configuration's width and      *)
(* height are both >= 1, every size the surface is configured with is      *)
(* >= 1 in both dimensions, and an honored resize to (0,0) is not rejected *)
(* but leaves the configuration at (1,1).                                  *)
C1_ConfigAtLeastOne ==
    /\ config.width >= 1 /\ config.height >= 1
    /\ \A i \in 1 .. Len(calls) :
          calls[i].op = "configure" => calls[i].arg[1] >= 1 /\ calls[i].arg[2] >= 1
    /\ (Honored /\ Last(log).size = << 0, 0 >>) =>
          /\ config.width = 1 /\ config.height = 1
          /\ CalledWith("configure", << 1, 1 >>)
          /\ status = "running"

C1_Witness ==
    /\ Honored /\ Last(log).size = << 0, 0 >>
    /\ config.width = 1 /\ config.height = 1
    /\ pre.config.width = 800

(* C2: on the platform family whose flag starts false (Windows), the first *)
(* resize event delivered leaves the Surface Configuration unchanged and   *)
(* does not configure the surface; every later resize event configures the *)
(* surface, once, with the clamped size it carries.                        *)
C2_FirstResizeSuppressedOnWindows ==
    (target_os = "windows" /\ Handled("resize")) =>
        IF NumKind(log, "resize") = 1
        THEN /\ config = pre.config
             /\ ~HasOp(calls, "configure")
        ELSE /\ config.width = AtLeastOne(Last(log).size[1])
             /\ config.height = AtLeastOne(Last(log).size[2])
             /\ CountOp(calls, "configure") = 1
             /\ CalledWith("configure", << config.width, config.height >>)

C2_Witness ==
    /\ target_os = "windows"
    /\ Handled("resize")
    /\ NumKind(log, "resize") = 2
    /\ config # pre.config
    /\ CalledWith("configure", << 400, 300 >>)

(* C3 as stated: on every platform family exactly one resize event, the    *)
(* first one delivered, is dropped without configuring the surface, and    *)
(* the later ones are honored.                                             *)
C3_OneResizeDroppedEverywhere ==
    Handled("resize") =>
        /\ dropped = 1
        /\ HasOp(calls, "configure") <=> NumKind(log, "resize") > 1

(* C3 as amended: where the flag starts false (Windows) exactly one resize *)
(* event, the first one delivered, is dropped without configuring the      *)
(* surface and the later ones are honored; where the flag starts true      *)
(* (every other family) no resize event is dropped and every resize event, *)
(* the first included, is honored.                                         *)
C3_OneResizeDroppedOnWindowsOnly ==
    Handled("resize") =>
        IF target_os = "windows"
        THEN /\ dropped = 1
             /\ HasOp(calls, "configure") <=> NumKind(log, "resize") > 1
        ELSE /\ dropped = 0
             /\ HasOp(calls, "configure")

C3_Witness ==
    /\ target_os = "other"
    /\ Handled("resize")
    /\ NumKind(log, "resize") = 1
    /\ dropped = 0
    /\ HasOp(calls, "configure")

(* C4: a redraw cycle whose surface frame acquisition fails submits and    *)
(* presents nothing and leaves the controller able to go on: it is not in  *)
(* a fatal state, and it is Idle again if it was Idle before.              *)
C4_AcquireFailureRecovers ==
    (Handled("redraw") /\ ~Last(log).flag) =>
        /\ ~HasOp(calls, "submit") /\ ~HasOp(calls, "present")
        /\ Controller # "Fatal"
        /\ pre.control_flow = "Poll" => Controller = "Idle"

(* C5: a close-requested event puts the controller in Closing, and no      *)
(* event handled after it runs a redraw cycle, configures the surface or   *)
(* changes the Screen Description.                                         *)
C5_CloseIsTerminal ==
    /\ Handled("close") => Controller = "Closing"
    /\ (Len(log) > 0 /\ pre.control_flow = "ExitWithCode(0)") =>
          /\ ~RanRedrawCycle
          /\ ~HasOp(calls, "configure")
          /\ config = pre.config
          /\ screen_descriptor = pre.screen_descriptor

(* C6: on Windows with a window created at 800x600, a resize to 800x600 is *)
(* dropped and leaves the configuration as it was; a following resize to   *)
(* 400x300 makes the configuration 400x300 and requests a redraw; the      *)
(* following redraw hands size_in_pixels = (400,300) to the renderer.      *)
C6_Scenario ==
    LET r1 == Event("resize", << 800, 600 >>, TRUE)
        r2 == Event("resize", << 400, 300 >>, TRUE)
        rd == Event("redraw", << >>, TRUE)
    IN  (target_os = "windows" /\ window_inner_size = << 800, 600 >>) =>
          /\ log = << r1 >> =>
                /\ config = pre.config
                /\ config.width = 800 /\ config.height = 600
                /\ calls = << >>
          /\ log = << r1, r2 >> =>
                /\ config.width = 400 /\ config.height = 300
                /\ CalledWith("configure", << 400, 300 >>)
                /\ HasOp(calls, "request_redraw")
                /\ redraw_pending
          /\ log = << r1, r2, rd >> =>
                /\ CalledWith("update_buffers", << 400, 300 >>)
                /\ CalledWith("render", << 400, 300 >>)
                /\ CountOp(calls, "render") = 1

C6_Witness ==
    /\ target_os = "windows" /\ window_inner_size = << 800, 600 >>
    /\ log = << Event("resize", << 800, 600 >>, TRUE),
                Event("resize", << 400, 300 >>, TRUE),
                Event("redraw", << >>, TRUE) >>
    /\ CalledWith("render", << 400, 300 >>)

(* C7: the renderer holds no texture id that a texture delta listed as     *)
(* removed and no later delta added again.                                 *)
C7_RemovedTexturesReleased == textures \cap removed = {}

(* C8: every honored resize event configures the surface and then requests *)
(* a redraw, which is pending afterwards; a dropped resize event requests  *)
(* none.                                                                   *)
C8_HonoredResizeRequestsRedraw ==
    Handled("resize") =>
        IF pre.first_resize_happened
        THEN /\ CountOp(calls, "configure") = 1
             /\ CountOp(calls, "request_redraw") = 1
             /\ IndexOf(calls, "configure") < IndexOf(calls, "request_redraw")
             /\ redraw_pending
        ELSE /\ ~HasOp(calls, "request_redraw")
             /\ redraw_pending = pre.redraw_pending

C8_Witness ==
    /\ Honored
    /\ ~pre.redraw_pending
    /\ redraw_pending
    /\ Last(calls).op = "request_redraw"

(* C9: a window event other than resize and close-requested is passed to   *)
(* the Input Bridge once, a redraw is requested exactly when the bridge    *)
(* reports that a repaint is needed, and the handler runs no redraw cycle. *)
C9_OtherEventDelegated ==
    Handled("other") =>
        /\ CountOp(calls, "on_window_event") = 1
        /\ HasOp(calls, "request_redraw") <=> Last(log).flag
        /\ redraw_pending <=> (pre.redraw_pending \/ Last(log).flag)
        /\ ~RanRedrawCycle
        /\ textures = pre.textures

C9_Witness ==
    /\ Handled("other")
    /\ ~Last(log).flag
    /\ ~redraw_pending
    /\ calls = << Call("on_window_event", << >>) >>

(* C10 as stated: every redraw-request event handled from Idle performs    *)
(* take staged input, begin_frame, build UI, end_frame, acquire, submit,   *)
(* present, in this order and once each, and ends in Idle.                 *)
C10_EveryCycleRunsAllSteps ==
    (Handled("redraw") /\ pre.control_flow = "Poll") =>
        /\ Steps(calls) = CycleSteps
        /\ Controller = "Idle"

(* C10 as amended: a redraw-request event handled from Idle whose surface  *)
(* frame acquisition succeeds performs the seven steps in this order, once *)
(* each, and ends in Idle; one whose acquisition fails performs the first  *)
(* five, in order and once each, and neither submits nor presents.         *)
C10_SuccessfulCycleRunsAllSteps ==
    (Handled("redraw") /\ pre.control_flow = "Poll") =>
        IF Last(log).flag
        THEN /\ Steps(calls) = CycleSteps
             /\ Controller = "Idle"
        ELSE Steps(calls) = SubSeq(CycleSteps, 1, 5)

C10_Witness ==
    /\ Handled("redraw") /\ pre.control_flow = "Poll"
    /\ Last(log).flag
    /\ Steps(calls) = CycleSteps
    /\ Controller = "Idle"

----------------------------------------------------------------------------
(* Vocabulary of the properties about the Screen Description, the input    *)
(* bridge and the frame                                                    *)

SurfaceSize == << config.width, config.height >>

\* the serial numbers, in delivery order, of the events of l up to the n-th
\* that are neither resize, close-requested, redraw nor loop-destroyed
RECURSIVE OtherSerials(_, _)
OtherSerials(l, n) ==
    IF n = 0 THEN << >>
    ELSE OtherSerials(l, n - 1) \o (IF l[n].kind = "other" THEN << n >> ELSE << >>)

IsFrameCall(op) == op \in { "begin_frame", "end_frame" }

FrameCalls(cs) == SelectSeq(Ops(cs), IsFrameCall)

RedrawDone == Handled("redraw") /\ Last(log).flag

(* C11 as stated: every resize event delivered sets size_in_pixels to the  *)
(* size it carries, and redraw, close-requested and other-input events     *)
(* leave the Screen Description unchanged.                                 *)
C11_EveryResizeUpdatesScreen ==
    /\ Handled("resize") => screen_descriptor.size_in_pixels = Last(log).size
    /\ (Len(log) > 0 /\ ~Handled("resize")) =>
          screen_descriptor = pre.screen_descriptor

(* C11 as amended: every honored resize event sets size_in_pixels to the   *)
(* size it carries; a dropped resize event and every redraw,               *)
(* close-requested and other-input event leave the Screen Description      *)
(* unchanged.                                                              *)
C11_HonoredResizeUpdatesScreen ==
    /\ Honored => screen_descriptor.size_in_pixels = Last(log).size
    /\ (Len(log) > 0 /\ ~Honored) => screen_descriptor = pre.screen_descriptor

C11_Witness ==
    /\ Honored
    /\ Last(log).size = << 400, 300 >>
    /\ pre.screen_descriptor.size_in_pixels = << 800, 600 >>
    /\ screen_descriptor.size_in_pixels = << 400, 300 >>

(* C12: only a resize event changes the Surface Configuration: redraw (a   *)
(* failed acquisition included), close-requested and other-input events    *)
(* leave all four fields as they were, and a resize event leaves format    *)
(* and presentation mode as they were.                                     *)
C12_ConfigChangedOnlyByResize ==
    /\ (Len(log) > 0 /\ ~Handled("resize")) =>
          /\ config = pre.config
          /\ ~HasOp(calls, "configure")
    /\ Handled("resize") =>
          /\ config.format = pre.config.format
          /\ config.present_mode = pre.config.present_mode

C12_Witness ==
    /\ Honored
    /\ config.width # pre.config.width /\ config.height # pre.config.height
    /\ config.format = "preferred" /\ config.present_mode = "Fifo"

(* C13: begin_frame is called only on an Idle driver and end_frame only on *)
(* a Building one: the driver never reaches the programmer-error state, it *)
(* is Idle whenever the controller is Idle, and the begin and end calls of *)
(* a handler alternate, starting with begin.                               *)
C13_FrameProtocolRespected ==
    /\ ui_driver # "Error"
    /\ Controller = "Idle" => ui_driver = "Idle"
    /\ FrameCalls(calls) \in { << >>, << "begin_frame", "end_frame" >> }
    /\ Handled("redraw") => FrameCalls(calls) = << "begin_frame", "end_frame" >>

C13_Witness ==
    /\ NumKind(log, "redraw") = 2
    /\ RedrawDone
    /\ FrameCalls(calls) = << "begin_frame", "end_frame" >>
    /\ ui_driver = "Idle"

(* C14: the events given to the Input Bridge are exactly the delivered     *)
(* events that are neither resize nor close-requested (nor redraw), in the *)
(* order of their delivery; a resize or close-requested handler never      *)
(* calls the bridge.                                                       *)
C14_BridgeSeesOtherEventsInOrder ==
    /\ fed = OtherSerials(log, Len(log))
    /\ (Handled("resize") \/ Handled("close")) => ~HasOp(calls, "on_window_event")

C14_Witness ==
    /\ Len(log) = 3
    /\ log[1].kind = "other" /\ log[2].kind = "resize" /\ log[3].kind = "other"
    /\ fed = << 1, 3 >>

C16_ScreenSizeEqualsSurfaceSize ==
    screen_descriptor.size_in_pixels = SurfaceSize

(* C16 as amended: in every reachable state the Surface Configuration's    *)
(* (width, height) is size_in_pixels with each dimension raised to at      *)
(* least 1: the two are equal when no dimension is 0, and where            *)
(* size_in_pixels holds 0 the configuration holds 1.                       *)
C16_SurfaceSizeIsClampedScreenSize ==
    /\ config.width = AtLeastOne(screen_descriptor.size_in_pixels[1])
    /\ config.height = AtLeastOne(screen_descriptor.size_in_pixels[2])
    /\ RedrawDone =>
          \E i \in 1 .. Len(calls) :
              /\ calls[i].op = "render"
              /\ SurfaceSize = << AtLeastOne(calls[i].arg[1]), AtLeastOne(calls[i].arg[2]) >>

C16_Witness ==
    /\ Honored
    /\ pre.screen_descriptor.size_in_pixels = << 800, 600 >>
    /\ screen_descriptor.size_in_pixels = << 0, 0 >>
    /\ SurfaceSize = << 1, 1 >>

(* C17: the Resize-Suppression Flag never goes from true to false, only a  *)
(* resize event changes it, and at most one resize event is dropped in a   *)
(* run.                                                                    *)
C17_FlagMonotonic ==
    /\ pre.first_resize_happened => first_resize_happened
    /\ (Len(log) > 0 /\ ~Handled("resize")) =>
          first_resize_happened = pre.first_resize_happened
    /\ dropped <= 1
    /\ dropped = 1 => first_resize_happened

C17_Witness ==
    /\ dropped = 1
    /\ NumKind(log, "resize") = 3
    /\ first_resize_happened

(* C18: a handler that presents has before it, in the same handler, one    *)
(* successful acquisition and then one queue submit; a redraw cycle whose  *)
(* acquisition succeeds presents once, as its last call; resize, close and *)
(* other-input handlers never acquire, submit or present.                  *)
C18_PresentOnlyInsideCycle ==
    /\ HasOp(calls, "present") =>
          /\ RedrawDone
          /\ CountOp(calls, "get_current_texture") = 1
          /\ CountOp(calls, "submit") = 1
          /\ CountOp(calls, "present") = 1
          /\ IndexOf(calls, "get_current_texture") < IndexOf(calls, "submit")
          /\ IndexOf(calls, "submit") < IndexOf(calls, "present")
    /\ RedrawDone => (CountOp(calls, "present") = 1 /\ Last(calls).op = "present")
    /\ ~Handled("redraw") =>
          /\ ~HasOp(calls, "get_current_texture")
          /\ ~HasOp(calls, "submit")
          /\ ~HasOp(calls, "present")

C18_Witness ==
    /\ RedrawDone
    /\ pre.redraw_pending
    /\ Last(calls).op = "present"
    /\ CountOp(calls, "submit") = 1

(* C19, the runs it holds on: the same, with the panic of a failed         *)
(* acquisition (line 112) as a third way out.                              *)
C19_HoldsUpToPanic ==
    Honored ~> \/ RedrawDone /\ CalledWith("render", screen_descriptor.size_in_pixels)
               \/ control_flow = "ExitWithCode(0)"
               \/ status = "panicked"

(* C19: with every outstanding redraw request answered, an honored resize  *)
(* event is eventually followed by a redraw cycle that renders with the    *)
(* Screen Description as that resize or a later one set it, or by the      *)
(* handling of a close-requested event.                                    *)
C19_ResizeLeadsToRedraw ==
    Honored ~> \/ RedrawDone /\ CalledWith("render", screen_descriptor.size_in_pixels)
               \/ control_flow = "ExitWithCode(0)"

====
